---- MODULE Spec2Model ----
(***************************************************************************)
(* A model of python-zcashlib's chain-parameter registry                   *)
(* (zcash/__init__.py, bitcoin/__init__.py) and of its JSON-RPC proxy      *)
(* (zcash/rpc.py).                                                         *)
(*                                                                         *)
(* Python values are written as follows.  A dict is a record (a function   *)
(* on its keys), so "k in d" is k \in DOMAIN d.  None is the record None.  *)
(* A bytes value is a sequence of integers 0..255, a hex string a sequence *)
(* of hex digits 0..15.  An exception is a record with a field cls.        *)
(***************************************************************************)
EXTENDS Integers, Sequences, FiniteSets, TLC

VARIABLES
    params,             \* zcash.params, the module-level active profile
    coreparams,         \* zcash.core.coreparams
    bitcoin_params,     \* bitcoin.params
    bitcoin_coreparams, \* bitcoin.core.coreparams
    lastOk,             \* history: per module, the name given to the last
                        \* SelectParams call that returned, "" if none did
    self,               \* the attributes of the one proxy object
    stage,              \* its life: "unborn", "live" (__init__ returned),
                        \* "init_failed" (__init__ raised), "deleted"
    wire,               \* the ids of the requests posted on the connection
    posted,             \* the last payload posted on the connection
    ret                 \* the last operation (a SelectParams call or an
                        \* operation of the proxy): its name, its inputs,
                        \* for SelectParams the profile active before it,
                        \* and how it ended

paramVars == <<params, coreparams, bitcoin_params, bitcoin_coreparams, lastOk>>
vars == <<params, coreparams, bitcoin_params, bitcoin_coreparams, lastOk,
          self, stage, wire, posted, ret>>

None == [py |-> "None"]

(***************************************************************************)
(* Chain profiles.  A BASE58 prefix is bytes in some profiles and an int   *)
(* in others, so each prefix value carries its Python type.                *)
(***************************************************************************)
PyBytes(s) == [bytes |-> s]
PyInt(n) == [int |-> n]

MainParams ==
    [cls |-> "MainParams",
     MESSAGE_START |-> <<36, 233, 39, 100>>,
     DEFAULT_PORT |-> 8233,
     RPC_PORT |-> 8232,
     DNS_SEEDS |-> << <<"z.cash", "dnsseed.z.cash">>,
                      <<"str4d.xyz", "dnsseed.str4d.xyz">>,
                      <<"znodes.org", "dnsseed.znodes.org">> >>,
     BASE58_PREFIXES |-> [PUBKEY_ADDR |-> PyBytes(<<28, 184>>),
                          SCRIPT_ADDR |-> PyBytes(<<28, 189>>),
                          SECRET_KEY |-> PyInt(128)]]

\* TestNetParams with its two ports exchanged
TestNetParams_ports_exchanged ==
    [cls |-> "TestNetParams",
     MESSAGE_START |-> <<250, 26, 249, 191>>,
     DEFAULT_PORT |-> 18232,
     RPC_PORT |-> 18233,
     DNS_SEEDS |-> <<"z.cash", "dnsseed.testnet.z.cash">>,
     BASE58_PREFIXES |-> [PUBKEY_ADDR |-> PyBytes(<<29, 37>>),
                          SCRIPT_ADDR |-> PyBytes(<<28, 186>>),
                          SECRET_KEY |-> PyInt(239)]]

TestNetParams ==
    [cls |-> "TestNetParams",
     MESSAGE_START |-> <<250, 26, 249, 191>>,
     DEFAULT_PORT |-> 18233,
     RPC_PORT |-> 18232,
     DNS_SEEDS |-> <<"z.cash", "dnsseed.testnet.z.cash">>,
     BASE58_PREFIXES |-> [PUBKEY_ADDR |-> PyBytes(<<29, 37>>),
                          SCRIPT_ADDR |-> PyBytes(<<28, 186>>),
                          SECRET_KEY |-> PyInt(239)]]

RegTestParams ==
    [cls |-> "RegTestParams",
     MESSAGE_START |-> <<170, 234, 63, 95>>,
     DEFAULT_PORT |-> 18444,
     RPC_PORT |-> 18232,
     DNS_SEEDS |-> <<>>,
     BASE58_PREFIXES |-> [PUBKEY_ADDR |-> PyBytes(<<29, 37>>),
                          SCRIPT_ADDR |-> PyBytes(<<28, 186>>),
                          SECRET_KEY |-> PyInt(239)]]

bitcoin_MainParams == MainParams

bitcoin_TestNetParams == TestNetParams

bitcoin_RegTestParams ==
    [cls |-> "RegTestParams",
     MESSAGE_START |-> <<170, 234, 63, 95>>,
     DEFAULT_PORT |-> 18444,
     RPC_PORT |-> 18232,
     DNS_SEEDS |-> <<>>,
     BASE58_PREFIXES |-> [PUBKEY_ADDR |-> PyInt(7461),
                          SCRIPT_ADDR |-> PyInt(7354),
                          SECRET_KEY |-> PyInt(239)]]

\* The names SelectParams is called with: the three chains and two others.
ChainNames == {"mainnet", "testnet", "regtest"}
OtherNames == {"main", ""}
Names == ChainNames \cup OtherNames

\* zcash.core._SelectCoreParams(name): whether it raises ValueError.  It
\* accepts the three chains; for another name it raises, or returns and
\* leaves the error to its caller.
SelectCoreParams_raises(name) == IF name \in ChainNames THEN {FALSE} ELSE BOOLEAN

(***************************************************************************)
(* Python values of the RPC layer.  Every value is a record tagged by its  *)
(* Python type, so that values of different types can be told apart:       *)
(*   None, [bool |-> b], [int |-> n], [str |-> s],                         *)
(*   [hexstr |-> ds]    a str of hex digits, each 0..15,                   *)
(*   [bytes |-> bs]     bytes,                                             *)
(*   [coef |-> c, places |-> p]   the decimal.Decimal c * 10^-p,           *)
(*   [mant |-> m, exp2 |-> e]     the float m * 2^e,                       *)
(*   [list |-> seq],    and a dict as the record of its keys.              *)
(* A function that can raise yields Return(v) or Raise(exception).         *)
(***************************************************************************)
PyBool(b) == [bool |-> b]
PyStr(s) == [str |-> s]
PyHex(h) == [hexstr |-> h]
PyList(l) == [list |-> l]
Decimal(c, p) == [coef |-> c, places |-> p]

Return(v) == [status |-> "return", value |-> v]
Raise(e) == [status |-> "raise", exc |-> e]
Returned(o) == o.status = "return"
Raised(o) == o.status = "raise"

IsNone(v) == v = None
IsInt(v) == DOMAIN v = {"int"}
IsDecimal(v) == DOMAIN v = {"coef", "places"}
IsBytes(v) == DOMAIN v = {"bytes"}
IsHex(v) == DOMAIN v = {"hexstr"}

ValueError == [cls |-> "ValueError"]
TypeError == [cls |-> "TypeError"]
AttributeError == [cls |-> "AttributeError"]
NameError == [cls |-> "NameError"]
binascii_Error == [cls |-> "binascii.Error"]
KeyError(k) == [cls |-> "KeyError", key |-> k]
IndexError(where, rpc_error) == [cls |-> "IndexError", where |-> where, error |-> rpc_error]

Reverse(s) == [i \in 1..Len(s) |-> s[Len(s) + 1 - i]]

RECURSIVE Pow10(_)
Pow10(n) == IF n = 0 THEN 1 ELSE 10 * Pow10(n - 1)

\* binascii.hexlify / unhexlify on the digits and the bytes themselves
hexlify(b) ==
    [i \in 1..(2 * Len(b)) |->
        IF i % 2 = 1 THEN b[(i + 1) \div 2] \div 16 ELSE b[i \div 2] % 16]

unhexlify(h) ==
    IF ~IsHex(h) THEN Raise(TypeError)
    ELSE IF Len(h.hexstr) % 2 = 1 THEN Raise(binascii_Error)
    ELSE Return(PyBytes([i \in 1..(Len(h.hexstr) \div 2) |->
                            16 * h.hexstr[2 * i - 1] + h.hexstr[2 * i]]))

\* zcash.core: x (hex to bytes), lx (hex to bytes, byte order reversed) and
\* b2lx (bytes to hex, byte order reversed)
x(h) == unhexlify(h)

lx(h) ==
    LET b == unhexlify(h)
    IN  IF Raised(b) THEN b ELSE Return(PyBytes(Reverse(b.value.bytes)))

b2lx(b) ==
    IF ~IsBytes(b) THEN Raise(TypeError)
    ELSE Return(PyHex(hexlify(Reverse(b.bytes))))

\* zcash.core.COIN, the number of smallest units in one coin
COIN == 100000000

\* int(v * COIN) for v an int or a Decimal.  Decimal arithmetic is exact
\* here, so int(c * 10^-p * 10^8) is c * 10^(8-p), or c with its last p-8
\* digits dropped (int() truncates towards zero).
int_times_COIN(v) ==
    IF IsInt(v) THEN Return(PyInt(v.int * COIN))
    ELSE IF IsDecimal(v) THEN
        Return(PyInt(
            IF v.places <= 8
            THEN v.coef * Pow10(8 - v.places)
            ELSE IF v.coef >= 0
                 THEN v.coef \div Pow10(v.places - 8)
                 ELSE -((-v.coef) \div Pow10(v.places - 8))))
    ELSE Raise(TypeError)

(***************************************************************************)
(* JSON on the wire.  A wire value is null, a string, a bool, a number     *)
(* literal [whole |-> n, frac |-> digits] (frac = <<>> for an integer      *)
(* literal), a list or an object (the record of its keys).                 *)
(***************************************************************************)
null == [json |-> "null"]
Num(whole, frac) == [whole |-> whole, frac |-> frac]

RECURSIVE DigitsValue(_)
DigitsValue(ds) ==
    IF ds = <<>> THEN 0
    ELSE 10 * DigitsValue(SubSeq(ds, 1, Len(ds) - 1)) + ds[Len(ds)]

\* json.loads(text, parse_float=decimal.Decimal)
RECURSIVE json_loads(_)
json_loads(v) ==
    LET D == DOMAIN v
    IN  IF D = {"json"} THEN None
        ELSE IF D = {"whole", "frac"} THEN
            IF v.frac = <<>> THEN PyInt(v.whole)
            ELSE Decimal(v.whole * Pow10(Len(v.frac)) + DigitsValue(v.frac),
                         Len(v.frac))
        ELSE IF D = {"list"} THEN
            PyList([i \in 1..Len(v.list) |-> json_loads(v.list[i])])
        ELSE IF D \in {{"str"}, {"hexstr"}, {"bool"}} THEN v
        ELSE [k \in D |-> json_loads(v[k])]

(***************************************************************************)
(* Python floats.  A float is an IEEE 754 double: zero, or m * 2^e with m  *)
(* an integer of 53 bits, 2^52 <= m < 2^53.  m does not fit an integer of  *)
(* 32 bits, so it and the other large numbers met on the way are written   *)
(* as sequences of limbs in base 10000, least significant                  *)
(* first (<<>> is 0), or of decimal digits, least significant first.       *)
(* Only floats >= 0 occur.                                                 *)
(***************************************************************************)
\* a without its leading zeros (the last elements of the sequence)
BigNorm(a) ==
    LET nz == {i \in 1..Len(a) : a[i] # 0}
    IN  IF nz = {} THEN <<>>
        ELSE SubSeq(a, 1, CHOOSE i \in nz : \A j \in nz : j <= i)

Limb(a, i) == IF 1 <= i /\ i <= Len(a) THEN a[i] ELSE 0

BigOfNat(n) == BigNorm(<<n % 10000, (n \div 10000) % 10000, n \div 100000000>>)
NatOfBig(a) == Limb(a, 1) + 10000 * Limb(a, 2) + 100000000 * Limb(a, 3)

\* The number whose limbs, not yet reduced to 0..9999, are ls: each limb
\* hands its excess (or its deficit) to the next until none is left
RECURSIVE BigCarry(_)
BigCarry(ls) ==
    IF \A i \in 1..Len(ls) : 0 <= ls[i] /\ ls[i] < 10000 THEN BigNorm(ls)
    ELSE BigCarry(SubSeq([i \in 1..(Len(ls) + 1) |->
                             (Limb(ls, i) % 10000) + (Limb(ls, i - 1) \div 10000)],
                         1, Len(ls) + 1))

\* a * k for 0 <= k <= 200000, a + b, and a - b for a >= b
BigMulSmall(a, k) == BigCarry(SubSeq([i \in 1..Len(a) |-> a[i] * k], 1, Len(a)))
BigAdd(a, b) ==
    LET n == IF Len(a) > Len(b) THEN Len(a) ELSE Len(b)
    IN  BigCarry(SubSeq([i \in 1..n |-> Limb(a, i) + Limb(b, i)], 1, n))
BigSub(a, b) == BigCarry(SubSeq([i \in 1..Len(a) |-> a[i] - Limb(b, i)], 1, Len(a)))

\* a * k^n for k = 2 or k = 5
RECURSIVE BigMulPow(_, _, _)
BigMulPow(a, k, n) ==
    IF n = 0 \/ a = <<>> THEN a
    ELSE IF n >= 7 THEN BigMulPow(BigMulSmall(a, k^7), k, n - 7)
    ELSE BigMulPow(BigMulSmall(a, k), k, n - 1)

BigPow2(n) == BigMulPow(<<1>>, 2, n)

\* -1, 0 or 1 as a < b, a = b or a > b
BigCmp(a, b) ==
    IF Len(a) # Len(b) THEN (IF Len(a) < Len(b) THEN -1 ELSE 1)
    ELSE LET d == {i \in 1..Len(a) : a[i] # b[i]}
             top == CHOOSE i \in d : \A j \in d : j <= i
         IN  IF d = {} THEN 0 ELSE IF a[top] < b[top] THEN -1 ELSE 1

\* The decimal digits of a number in limbs, and the limbs of decimal digits
DigitsOfBig(a) ==
    BigNorm(SubSeq([i \in 1..(4 * Len(a)) |->
                       (a[(i + 3) \div 4] \div Pow10((i - 1) % 4)) % 10],
                   1, 4 * Len(a)))
BigOfDigits(d) ==
    BigNorm(SubSeq([j \in 1..((Len(d) + 3) \div 4) |->
                       Limb(d, 4 * j - 3) + 10 * Limb(d, 4 * j - 2)
                       + 100 * Limb(d, 4 * j - 1) + 1000 * Limb(d, 4 * j)],
                   1, (Len(d) + 3) \div 4))

\* The number of bits of 0 < n < 2^31
BitLen(n) == CHOOSE k \in 1..31 : n \div 2^(k - 1) = 1

PyFloat(mant, exp2) == [mant |-> mant, exp2 |-> exp2]
IsFloat(v) == DOMAIN v = {"mant", "exp2"}

\* float(amount) / COIN for an int 0 <= amount < 2^31 (true division): both
\* operands are exact as floats, and the quotient is amount / COIN rounded
\* to the nearest double, a tie to the even mantissa.  s is the least shift
\* with amount * 2^s / COIN >= 2^52.  COIN is 10000 * 10000, so the
\* quotient of a number by COIN is the number without its two lowest limbs
\* and the remainder is those two limbs.
float_div_COIN(amount) ==
    IF amount = 0 THEN PyFloat(<<>>, 0)
    ELSE LET s0 == 52 + BitLen(COIN) - BitLen(amount)
             n0 == BigMulPow(BigOfNat(amount), 2, s0)
             enough == BigCmp(n0, <<0, 0>> \o BigPow2(52)) >= 0
             s == IF enough THEN s0 ELSE s0 + 1
             scaled == IF enough THEN n0 ELSE BigMulSmall(n0, 2)
             quot == SubSeq(scaled, 3, Len(scaled))
             rem == scaled[1] + 10000 * scaled[2]
             roundUp == 2 * rem > COIN \/ (2 * rem = COIN /\ quot[1] % 2 = 1)
             m == IF roundUp THEN BigAdd(quot, <<1>>) ELSE quot
         IN  IF m = BigPow2(53) THEN PyFloat(BigPow2(52), 1 - s)
             ELSE PyFloat(m, -s)

\* The shortest decimal of at least `from' digits that rounds to the double
\* m * 2^-s, found as repr finds it.  E = m * 5^s (in decimal digits) holds
\* the digits of the double, whose value is E * 10^-s, and F = 5^s is the
\* gap to the next double on that scale.  A decimal rounds to the double
\* when it is nearer than F / 2 (F / 4 below, when m = 2^52).  The decimals
\* of k digits next to the double are E cut to k digits and the one above;
\* the least k with one that rounds to the double gives the result, the
\* nearer of the two if both do.  17 digits always suffice.
ShortestDecimal(E, F, from, lowQuarter) ==
    LET L == Len(E)
        R(k) == BigOfDigits(SubSeq(E, 1, L - k))
        P(k) == BigOfDigits(SubSeq([i \in 1..(L - k + 1) |->
                                       IF i = L - k + 1 THEN 1 ELSE 0],
                                   1, L - k + 1))
        U(k) == BigSub(P(k), R(k))
        okDn(k) == BigCmp(BigMulSmall(R(k), IF lowQuarter THEN 4 ELSE 2), F) < 0
        okUp(k) == BigCmp(BigMulSmall(U(k), 2), F) < 0
        ks == {k \in from..17 : k < L /\ (k = 17 \/ okDn(k) \/ okUp(k))}
        least == CHOOSE k \in ks : \A j \in ks : k <= j
        Dn == SubSeq([i \in 1..L |-> IF i <= L - least THEN 0 ELSE E[i]], 1, L)
    IN  IF ks = {} THEN E
        ELSE IF okDn(least) /\ (~okUp(least) \/ BigCmp(R(least), U(least)) <= 0)
        THEN Dn
        ELSE DigitsOfBig(BigAdd(BigOfDigits(Dn), P(least)))

\* The decimal X * 10^-s, X in decimal digits, as a number literal
LiteralOfDecimal(X, s) ==
    LET n == IF Len(X) > s THEN Len(X) ELSE s
        nz == {i \in 1..s : Limb(X, i) # 0}
        low == CHOOSE i \in nz : \A j \in nz : i <= j
    IN  Num(NatOfBig(BigOfDigits(SubSeq(X, s + 1, Len(X)))),
            IF nz = {} THEN <<0>>
            ELSE SubSeq([i \in 1..(s - low + 1) |-> Limb(X, s + 1 - i)],
                        1, s - low + 1))

\* float_repr with the 17 significant digits of '%.17g'
float_repr_17_digits(f) ==
    IF f.mant = <<>> THEN Num(0, <<0>>)
    ELSE LET s == -f.exp2
         IN  LiteralOfDecimal(
                 ShortestDecimal(DigitsOfBig(BigMulPow(f.mant, 5, s)),
                                 BigMulPow(<<1>>, 5, s), 17, f.mant = BigPow2(52)),
                 s)

\* repr(f) for a float 0 <= f < 2^31, as the number literal json.dumps
\* writes.  The literal is given by its value: repr writes 1e-08 where the
\* model has 0.00000001, and the parser reads both as the same Decimal.
float_repr(f) ==
    IF f.mant = <<>> THEN Num(0, <<0>>)
    ELSE LET s == -f.exp2
         IN  LiteralOfDecimal(
                 ShortestDecimal(DigitsOfBig(BigMulPow(f.mant, 5, s)),
                                 BigMulPow(<<1>>, 5, s), 1, f.mant = BigPow2(52)),
                 s)

\* json.dumps(obj): None becomes null, an int an integer literal, a float
\* its repr, a tuple or list a list, a dict an object
RECURSIVE json_dumps(_)
json_dumps(v) ==
    LET D == DOMAIN v
    IN  IF v = None THEN null
        ELSE IF D = {"int"} THEN Num(v.int, <<>>)
        ELSE IF D = {"mant", "exp2"} THEN float_repr(v)
        ELSE IF D = {"list"} THEN
            PyList([i \in 1..Len(v.list) |-> json_dumps(v.list[i])])
        ELSE IF D \in {{"str"}, {"hexstr"}, {"bool"}} THEN v
        ELSE [k \in D |-> json_dumps(v[k])]

(***************************************************************************)
(* The error taxonomy                                                      *)
(***************************************************************************)
\* JSONRPCError.SUBCLS_BY_CODE after the seven _register_subcls decorators
SUBCLS_BY_CODE ==
    (-2 :> "ForbiddenBySafeModeError") @@
    (-5 :> "InvalidAddressOrKeyError") @@
    (-8 :> "InvalidParameterError") @@
    (-25 :> "VerifyError") @@
    (-26 :> "VerifyRejectedError") @@
    (-27 :> "VerifyAlreadyInChainError") @@
    (-28 :> "InWarmupError")

\* JSONRPCError that never looks the code up
JSONRPCError_base_only(rpc_error) ==
    [cls |-> "JSONRPCError", error |-> rpc_error]

\* JSONRPCError(rpc_error): the exception __new__ builds
JSONRPCError(rpc_error) ==
    [cls |-> IF rpc_error.code.int \in DOMAIN SUBCLS_BY_CODE
             THEN SUBCLS_BY_CODE[rpc_error.code.int]
             ELSE "JSONRPCError",
     error |-> rpc_error]

(***************************************************************************)
(* SelectParams                                                            *)
(***************************************************************************)
\* The value of coreparams before any SelectParams call: zcash.core's own
\* default, an instance of CoreMainParams.
CoreMainParams == [cls |-> "CoreMainParams"]


\* The chain with an else branch that falls back to the default chain
SelectParams_chain_default(name) ==
    IF name = "mainnet" THEN Return(MainParams)
    ELSE IF name = "testnet" THEN Return(TestNetParams)
    ELSE IF name = "regtest" THEN Return(RegTestParams)
    ELSE Return(MainParams)

\* The chain with the testnet branch assigning the regtest profile
SelectParams_chain_copied(name) ==
    IF name = "mainnet" THEN Return(MainParams)
    ELSE IF name = "testnet" THEN Return(RegTestParams)
    ELSE IF name = "regtest" THEN Return(RegTestParams)
    ELSE Raise(ValueError)

\* Lines 68-75 of zcash/__init__.py: the profile the if/elif chain makes
\* active, or the ValueError of its else branch
SelectParams_chain(name) ==
    IF name = "mainnet" THEN Return(MainParams)
    ELSE IF name = "testnet" THEN Return(TestNetParams)
    ELSE IF name = "regtest" THEN Return(RegTestParams)
    ELSE Raise(ValueError)

\* zcash.SelectParams(name)
SelectParams(name) ==
    \E coreRaises \in SelectCoreParams_raises(name) :
        LET chain == IF coreRaises THEN Raise(ValueError) ELSE SelectParams_chain(name)
        IN  /\ IF Returned(chain)
               THEN /\ params' = chain.value
                    /\ coreparams' = chain.value
                    /\ lastOk' = [lastOk EXCEPT !.zcash = name]
               ELSE UNCHANGED <<params, coreparams, lastOk>>
            /\ ret' = [op |-> "SelectParams", module |-> "zcash", name |-> name,
                       before |-> params,
                       outcome |-> IF Returned(chain) THEN Return(None) ELSE chain]
            /\ UNCHANGED <<bitcoin_params, bitcoin_coreparams, self, stage, wire, posted>>

\* Lines 74-81 of bitcoin/__init__.py
bitcoin_SelectParams_chain(name) ==
    IF name = "mainnet" THEN Return(bitcoin_MainParams)
    ELSE IF name = "testnet" THEN Return(bitcoin_TestNetParams)
    ELSE IF name = "regtest" THEN Return(bitcoin_RegTestParams)
    ELSE Raise(ValueError)

\* bitcoin.SelectParams(name)
bitcoin_SelectParams(name) ==
    \E coreRaises \in SelectCoreParams_raises(name) :
        LET chain == IF coreRaises THEN Raise(ValueError)
                     ELSE bitcoin_SelectParams_chain(name)
        IN  /\ IF Returned(chain)
               THEN /\ bitcoin_params' = chain.value
                    /\ bitcoin_coreparams' = chain.value
                    /\ lastOk' = [lastOk EXCEPT !.bitcoin = name]
               ELSE UNCHANGED <<bitcoin_params, bitcoin_coreparams, lastOk>>
            /\ ret' = [op |-> "SelectParams", module |-> "bitcoin", name |-> name,
                       before |-> bitcoin_params,
                       outcome |-> IF Returned(chain) THEN Return(None) ELSE chain]
            /\ UNCHANGED <<params, coreparams, self, stage, wire, posted>>

(***************************************************************************)
(* Text that the constructor takes apart (configuration lines, URLs) is a  *)
(* sequence of tokens: the delimiters "#", "=", " ", "://", ":", "@", "/"  *)
(* are tokens of their own, every other token is a run of other            *)
(* characters.  [text |-> tokens] is the Python str.                       *)
(***************************************************************************)
Text(toks) == [text |-> toks]

\* str.index / str.find: the first position of tok, 0 if absent
Find(toks, tok) ==
    IF \E i \in 1..Len(toks) : toks[i] = tok
    THEN CHOOSE i \in 1..Len(toks) :
            toks[i] = tok /\ \A j \in 1..(i - 1) : toks[j] # tok
    ELSE 0

\* str.rfind: the last position of tok, 0 if absent
FindLast(toks, tok) ==
    IF \E i \in 1..Len(toks) : toks[i] = tok
    THEN CHOOSE i \in 1..Len(toks) :
            toks[i] = tok /\ \A j \in (i + 1)..Len(toks) : toks[j] # tok
    ELSE 0

\* str.strip()
RECURSIVE strip(_)
strip(toks) ==
    IF toks = <<>> THEN toks
    ELSE IF Head(toks) = " " THEN strip(Tail(toks))
    ELSE IF toks[Len(toks)] = " " THEN strip(SubSeq(toks, 1, Len(toks) - 1))
    ELSE toks

\* The decimal numerals the model reads and writes
Numerals ==
    ("80" :> 80) @@ ("7000" :> 7000) @@ ("8232" :> 8232) @@ ("18232" :> 18232)

\* int(s) for a str s
int_of_text(toks) ==
    IF Len(toks) = 1 /\ toks[1] \in DOMAIN Numerals
    THEN Return(PyInt(Numerals[toks[1]]))
    ELSE Raise(ValueError)

\* '%d' % n
text_of_int(n) == CHOOSE t \in DOMAIN Numerals : Numerals[t] = n

\* The loop of lines 149-155 over the lines of zcash.conf; conf maps a key
\* (its tokens) to a value (its tokens)
RECURSIVE read_conf(_, _)
read_conf(lines, conf) ==
    IF lines = <<>> THEN conf
    ELSE
        LET raw == Head(lines)
            line == IF Find(raw, "#") > 0
                    THEN SubSeq(raw, 1, Find(raw, "#") - 1)
                    ELSE raw
            eq == Find(line, "=")
            k == strip(SubSeq(line, 1, eq - 1))
            v == strip(SubSeq(line, eq + 1, Len(line)))
        IN  IF eq = 0 THEN read_conf(Tail(lines), conf)
            ELSE read_conf(Tail(lines),
                           [key \in DOMAIN conf \cup {k} |->
                               IF key = k THEN v ELSE conf[key]])

\* dict.get(key, default)
conf_get(conf, key, default) == IF key \in DOMAIN conf THEN conf[key] ELSE default

\* urlparse.urlparse(url) with the username, password, hostname and port
\* properties of its result; port is an outcome, as reading it can raise
urlparse(url) ==
    LET hasScheme == Len(url) >= 2 /\ url[2] = "://"
        rest == IF hasScheme THEN SubSeq(url, 3, Len(url)) ELSE <<>>
        slash == Find(rest, "/")
        netloc == IF slash > 0 THEN SubSeq(rest, 1, slash - 1) ELSE rest
        at == FindLast(netloc, "@")
        userinfo == SubSeq(netloc, 1, at - 1)
        hostinfo == SubSeq(netloc, at + 1, Len(netloc))
        ucolon == Find(userinfo, ":")
        hcolon == Find(hostinfo, ":")
    IN  [scheme |-> IF hasScheme THEN url[1] ELSE "",
         path |-> IF hasScheme
                  THEN (IF slash > 0 THEN SubSeq(rest, slash, Len(rest)) ELSE <<>>)
                  ELSE url,
         username |-> IF at = 0 THEN None
                      ELSE IF ucolon = 0 THEN Text(userinfo)
                      ELSE Text(SubSeq(userinfo, 1, ucolon - 1)),
         password |-> IF at = 0 \/ ucolon = 0 THEN None
                      ELSE Text(SubSeq(userinfo, ucolon + 1, Len(userinfo))),
         hostname |-> IF hostinfo = <<>> THEN None
                      ELSE IF hcolon = 0 THEN Text(hostinfo)
                      ELSE Text(SubSeq(hostinfo, 1, hcolon - 1)),
         port |-> IF hcolon = 0 THEN Return(None)
                  ELSE int_of_text(SubSeq(hostinfo, hcolon + 1, Len(hostinfo)))]

\* "%s" % v for a str or None
format_s(v) == IF v = None THEN <<"None">> ELSE v.text

DEFAULT_HTTP_TIMEOUT == 30

\* httplib.HTTPConnection(host, port=port, timeout=timeout): a connection
\* object; its socket is opened by the first request and closed by close()
HTTPConnection(host, port, timeout) ==
    [host |-> host, port |-> port, timeout |-> timeout, sock |-> "unopened"]

\* resolve_service_url without the check of lines 162-163: a missing
\* rpcpassword reads as the empty password
resolve_service_url_unchecked(service_url, service_port, conf_path, fd, active) ==
    IF service_url # None THEN Return(service_url)
    ELSE IF ~fd.readable THEN Raise([cls |-> "IOError", file |-> conf_path])
    ELSE
        LET conf == read_conf(fd.lines, (<<"rpcuser">> :> <<>>))
            port_158 == IF service_port = None
                        THEN PyInt(active.RPC_PORT)
                        ELSE service_port
            rpcport == IF <<"rpcport">> \in DOMAIN conf
                       THEN int_of_text(conf[<<"rpcport">>])
                       ELSE Return(port_158)
            rpchost == conf_get(conf, <<"rpcconnect">>, <<"localhost">>)
        IN  IF Raised(rpcport) THEN rpcport
            ELSE Return(Text(<<"http", "://">> \o conf[<<"rpcuser">>] \o <<":">>
                             \o conf_get(conf, <<"rpcpassword">>, <<>>) \o <<"@">>
                             \o rpchost
                             \o <<":", text_of_int(rpcport.value.int)>>))

\* Lines 136-168 of BaseProxy.__init__: the service URL, read from the
\* configuration file when none is given.  fd is what open() finds at the
\* path: [readable |-> FALSE], or the lines of the file.
resolve_service_url(service_url, service_port, conf_path, fd, active) ==
    IF service_url # None THEN Return(service_url)
    ELSE IF ~fd.readable THEN Raise([cls |-> "IOError", file |-> conf_path])
    ELSE
        LET conf == read_conf(fd.lines, (<<"rpcuser">> :> <<>>))
            port_158 == IF service_port = None
                        THEN PyInt(active.RPC_PORT)
                        ELSE service_port
            rpcport == IF <<"rpcport">> \in DOMAIN conf
                       THEN int_of_text(conf[<<"rpcport">>])
                       ELSE Return(port_158)
            rpchost == conf_get(conf, <<"rpcconnect">>, <<"localhost">>)
        IN  IF Raised(rpcport) THEN rpcport
            ELSE IF <<"rpcpassword">> \notin DOMAIN conf
            THEN Raise([cls |-> "ValueError", file |-> conf_path])
            ELSE Return(Text(<<"http", "://">> \o conf[<<"rpcuser">>] \o <<":">>
                             \o conf[<<"rpcpassword">>] \o <<"@">> \o rpchost
                             \o <<":", text_of_int(rpcport.value.int)>>))

\* The path of zcash.conf, lines 138-143
default_conf_file(platform_system) ==
    IF platform_system = "Windows"
    THEN "%APPDATA%/Zcash/zcash.conf"
    ELSE "~/.zcash/zcash.conf"

(***************************************************************************)
(* BaseProxy                                                               *)
(***************************************************************************)
\* The constructor's inputs
ExplicitUrls ==
    {Text(<<"http", "://", "u", ":", "pw", "@", "localhost", ":", "8232">>),
     Text(<<"http", "://", "localhost">>),
     Text(<<"https", "://", "u", ":", "pw", "@", "localhost", ":", "8232">>)}
ServiceUrls == {None} \cup ExplicitUrls
ServicePorts == {None, PyInt(7000)}
ConfFileArgs == {None, PyStr("/etc/zcash.conf")}
Platforms == {"Linux", "Windows"}
ConfFiles ==
    {[readable |-> FALSE],
     [readable |-> TRUE, lines |-> <<>>],
     [readable |-> TRUE, lines |-> << <<"rpcpassword", "=", "pw">> >>],
     [readable |-> TRUE, lines |-> << <<"rpcuser", " ", "=", " ", "u">>,
                                      <<"rpcpassword", "=", "pw", "=", "x">>,
                                      <<"rpcport", "=", "7000">>,
                                      <<"rpcconnect", "=", "node">> >>],
     [readable |-> TRUE, lines |-> << <<"#", "rpcpassword", "=", "pw">>,
                                      <<"rpcuser", "=", "u", "#", "=">> >>],
     [readable |-> TRUE, lines |-> << <<"rpcport", "=", "7000">> >>],
     [readable |-> TRUE, lines |-> << <<"rpcpassword", "=", "pw">>,
                                      <<"rpcport", "=", "auto">> >>]}

\* BaseProxy.__init__, reached through Proxy.__init__
BaseProxy__init__(service_url, service_port, zcash_conf_file, platform_system, fd) ==
    /\ stage = "unborn"
    /\ LET args == [service_url |-> service_url, service_port |-> service_port,
                    zcash_conf_file |-> zcash_conf_file, fd |-> fd,
                    active |-> params]
           service_port_134 == PyInt(18232)
           conf_path == IF zcash_conf_file = None
                        THEN default_conf_file(platform_system)
                        ELSE zcash_conf_file.str
           resolved == resolve_service_url(service_url, service_port_134,
                                           conf_path, fd, params)
           url == urlparse(resolved.value.text)
           port == IF url.port.value = None THEN 80 ELSE url.port.value.int
           authpair == Text(format_s(url.username) \o <<":">> \o format_s(url.password))
       IN  IF Raised(resolved)
           THEN /\ self' = [conn |-> None]
                /\ stage' = "init_failed"
                /\ ret' = [op |-> "__init__", args |-> args, outcome |-> resolved]
           ELSE IF url.scheme \notin {"http"}
           THEN /\ self' = [conn |-> None, service_url |-> resolved.value, url |-> url]
                /\ stage' = "init_failed"
                /\ ret' = [op |-> "__init__", args |-> args,
                           outcome |-> Raise([cls |-> "ValueError", scheme |-> url.scheme])]
           ELSE IF Raised(url.port)
           THEN /\ self' = [conn |-> None, service_url |-> resolved.value, url |-> url]
                /\ stage' = "init_failed"
                /\ ret' = [op |-> "__init__", args |-> args, outcome |-> url.port]
           ELSE /\ self' = [conn |-> HTTPConnection(url.hostname, port, DEFAULT_HTTP_TIMEOUT),
                            service_url |-> resolved.value,
                            url |-> url,
                            id_count |-> 0,
                            auth_header |-> [basic_b64 |-> authpair]]
                /\ stage' = "live"
                /\ ret' = [op |-> "__init__", args |-> args, outcome |-> Return(None)]
    /\ UNCHANGED <<wire, posted, paramVars>>

\* BaseProxy.__del__ without the call of close()
BaseProxy__del__leaving_open ==
    /\ stage \in {"live", "init_failed"}
    /\ stage' = "deleted"
    /\ ret' = [op |-> "__del__", outcome |-> Return(None)]
    /\ UNCHANGED <<self, wire, posted, paramVars>>

\* BaseProxy.__del__
BaseProxy__del__ ==
    /\ stage \in {"live", "init_failed"}
    /\ stage' = "deleted"
    /\ IF self.conn # None
       THEN self' = [self EXCEPT !.conn.sock = "closed"]
       ELSE UNCHANGED self
    /\ ret' = [op |-> "__del__", outcome |-> Return(None)]
    /\ UNCHANGED <<wire, posted, paramVars>>

\* The most calls the model lets one proxy make
MaxCalls == 2

\* What the connection does with one exchange: request() raises, or the
\* request is sent and getresponse() raises, returns None or returns a
\* response whose body is a JSON object
TransportFailures ==
    {[request_raises |-> "ConnectionRefusedError"],
     [getresponse_raises |-> "socket.timeout"],
     [getresponse |-> None]}

\* The error objects a node may report: every code of the taxonomy and
\* some outside it to a raw call, fewer to the typed operations
WireError(c, m) == [code |-> Num(c, <<>>), message |-> PyStr(m)]
Codes == {-2, -5, -8, -25, -26, -27, -28, -1, -342, -343, -9999}
RawErrors ==
    {WireError(c, "x") : c \in Codes} \cup {WireError(-5, "Block not found")}
TypedErrors ==
    {WireError(-5, "Block not found"), WireError(-8, "x"), WireError(-1, "x")}

\* The response objects a node may answer with, given the results and the
\* errors it may report
Responses(results, errors) ==
    {[error |-> null, result |-> r, id |-> Num(1, <<>>)] : r \in results}
    \cup {[error |-> e, result |-> null, id |-> Num(1, <<>>)] : e \in errors}
    \cup {[error |-> WireError(-5, "x"), id |-> Num(1, <<>>)]}
    \cup {[error |-> null, id |-> Num(1, <<>>)]}
    \cup {[id |-> Num(1, <<>>)]}
    \cup {[result |-> null, id |-> Num(1, <<>>)]}

Exchanges(results, errors) ==
    TransportFailures
    \cup {[getresponse |-> [body |-> b]] : b \in Responses(results, errors)}

\* _get_response raising the code of the missing result for a missing response
_get_response_code_343(net) ==
    IF "getresponse_raises" \in DOMAIN net
    THEN Raise([cls |-> net.getresponse_raises])
    ELSE IF net.getresponse = None
    THEN Raise(JSONRPCError([code |-> PyInt(-343),
                             message |-> PyStr("missing HTTP response from server")]))
    ELSE Return(json_loads(net.getresponse.body))

\* BaseProxy._get_response
_get_response(net) ==
    IF "getresponse_raises" \in DOMAIN net
    THEN Raise([cls |-> net.getresponse_raises])
    ELSE IF net.getresponse = None
    THEN Raise(JSONRPCError([code |-> PyInt(-342),
                             message |-> PyStr("missing HTTP response from server")]))
    ELSE Return(json_loads(net.getresponse.body))

\* Lines 205-211 of BaseProxy._call
_call_result(response) ==
    IF "error" \notin DOMAIN response THEN Raise(KeyError("error"))
    ELSE IF response.error # None THEN Raise(JSONRPCError(response.error))
    ELSE IF "result" \notin DOMAIN response
    THEN Raise(JSONRPCError([code |-> PyInt(-343),
                             message |-> PyStr("missing JSON-RPC result")]))
    ELSE Return(response.result)

\* BaseProxy._call giving the id back when the call fails: the counter
\* moves on only for a call that returns a result
_call_id_kept_on_failure(service_name, args, net) ==
    LET id == self.id_count + 1
        postdata == json_dumps([version |-> PyStr("1.1"),
                                method |-> PyStr(service_name),
                                params |-> PyList(args),
                                id |-> PyInt(id)])
        sent == "request_raises" \notin DOMAIN net
        response == _get_response(net)
        outcome == IF ~sent THEN Raise([cls |-> net.request_raises])
                   ELSE IF Raised(response) THEN response
                   ELSE _call_result(response.value)
    IN  [id_count |-> IF Raised(outcome) THEN self.id_count ELSE id,
         sock |-> IF sent THEN "open" ELSE self.conn.sock,
         wire |-> IF sent THEN Append(wire, id) ELSE wire,
         posted |-> IF sent THEN postdata ELSE posted,
         outcome |-> outcome]

\* BaseProxy._call sending the request again when no response came the
\* first time
_call_retrying(service_name, args, net) ==
    LET id == self.id_count + 1
        postdata == json_dumps([version |-> PyStr("1.1"),
                                method |-> PyStr(service_name),
                                params |-> PyList(args),
                                id |-> PyInt(id)])
        sent == "request_raises" \notin DOMAIN net
        response == _get_response(net)
    IN  [id_count |-> id,
         sock |-> IF sent THEN "open" ELSE self.conn.sock,
         wire |-> IF ~sent THEN wire
                  ELSE IF Raised(response) THEN wire \o <<id, id>>
                  ELSE Append(wire, id),
         posted |-> IF sent THEN postdata ELSE posted,
         outcome |-> IF ~sent THEN Raise([cls |-> net.request_raises])
                     ELSE IF Raised(response) THEN response
                     ELSE _call_result(response.value)]

\* BaseProxy._call(service_name, *args): the new id counter, what went on
\* the wire and the outcome
_call(service_name, args, net) ==
    LET id == self.id_count + 1
        postdata == json_dumps([version |-> PyStr("1.1"),
                                method |-> PyStr(service_name),
                                params |-> PyList(args),
                                id |-> PyInt(id)])
        sent == "request_raises" \notin DOMAIN net
        response == _get_response(net)
    IN  [id_count |-> id,
         sock |-> IF sent THEN "open" ELSE self.conn.sock,
         wire |-> IF sent THEN Append(wire, id) ELSE wire,
         posted |-> IF sent THEN postdata ELSE posted,
         outcome |-> IF ~sent THEN Raise([cls |-> net.request_raises])
                     ELSE IF Raised(response) THEN response
                     ELSE _call_result(response.value)]

\* The state after an operation that went through _call once
Called(op, args, net, c, outcome) ==
    /\ self' = [self EXCEPT !.id_count = c.id_count, !.conn.sock = c.sock]
    /\ wire' = c.wire
    /\ posted' = c.posted
    /\ ret' = [op |-> op, args |-> args, net |-> net, outcome |-> outcome]
    /\ UNCHANGED <<stage, paramVars>>

\* The state after an operation that raised before it called anything
NotCalled(op, args, outcome) ==
    /\ ret' = [op |-> op, args |-> args, outcome |-> outcome]
    /\ UNCHANGED <<self, wire, posted, stage, paramVars>>

CanCall == stage = "live" /\ self.id_count < MaxCalls

(***************************************************************************)
(* Proxy                                                                   *)
(***************************************************************************)
\* Proxy.call(service_name, *args)
call(service_name, args, net) ==
    /\ CanCall
    /\ LET c == _call(service_name, args, net)
       IN  Called("call", [service_name |-> service_name, args |-> args], net, c, c.outcome)

\* BaseProxy._batch raising the error of the first item that failed, as
\* _call does for a single response
_batch_translating(rpc_call_list, net) ==
    LET postdata == json_dumps(PyList(rpc_call_list))
        sent == "request_raises" \notin DOMAIN net
        response == _get_response(net)
        failed == IF Raised(response) \/ DOMAIN response.value # {"list"} THEN {}
                  ELSE {i \in 1..Len(response.value.list) :
                           response.value.list[i].error # None}
    IN  [id_count |-> self.id_count,
         sock |-> IF sent THEN "open" ELSE self.conn.sock,
         wire |-> IF sent THEN Append(wire, 0) ELSE wire,
         posted |-> IF sent THEN postdata ELSE posted,
         outcome |-> IF ~sent THEN Raise([cls |-> net.request_raises])
                     ELSE IF failed = {} THEN response
                     ELSE Raise(JSONRPCError(
                              response.value.list[CHOOSE i \in failed :
                                  \A j \in failed : i <= j].error))]

\* BaseProxy._batch(rpc_call_list): what went on the wire (a payload with no
\* id of its own is recorded as 0) and the outcome; the id counter is left
\* alone and the response is returned as decoded
_batch(rpc_call_list, net) ==
    LET postdata == json_dumps(PyList(rpc_call_list))
        sent == "request_raises" \notin DOMAIN net
    IN  [id_count |-> self.id_count,
         sock |-> IF sent THEN "open" ELSE self.conn.sock,
         wire |-> IF sent THEN Append(wire, 0) ELSE wire,
         posted |-> IF sent THEN postdata ELSE posted,
         outcome |-> IF ~sent THEN Raise([cls |-> net.request_raises])
                     ELSE _get_response(net)]

\* Batches leave the id counter alone: the payloads sent bound them
CanBatch == CanCall /\ Len(wire) < MaxCalls

\* proxy._batch(rpc_call_list)
batch(rpc_call_list, net) ==
    /\ CanBatch
    /\ LET c == _batch(rpc_call_list, net)
       IN  Called("_batch", [rpc_call_list |-> rpc_call_list], net, c, c.outcome)

(***************************************************************************)
(* RawProxy                                                                *)
(***************************************************************************)
\* name.startswith('__') and name.endswith('__'), for the names the model
\* uses
IsDunder(name) == name \in {"__members__", "__len__"}

\* The attributes of a RawProxy that Python finds without __getattr__ and
\* that the model calls: the methods it inherits from BaseProxy
InheritedMethods == {"_call", "_batch"}

\* RawProxy.__getattr__ handing the arguments over as one tuple
RawProxy__getattr__args_packed(name, args, net) ==
    LET a == [name |-> name, args |-> args]
    IN  IF IsDunder(name)
        THEN NotCalled("RawProxy.attribute", a, Raise(AttributeError))
        ELSE /\ CanCall
             /\ LET c == _call(name, <<PyList(args)>>, net)
                IN  Called("RawProxy.attribute", a, net, c, c.outcome)

\* RawProxy.__getattr__(name)(*args)
RawProxy__getattr__(name, args, net) ==
    LET a == [name |-> name, args |-> args]
    IN  IF IsDunder(name)
        THEN NotCalled("RawProxy.attribute", a, Raise(AttributeError))
        ELSE /\ CanCall
             /\ LET c == _call(name, args, net)
                IN  Called("RawProxy.attribute", a, net, c, c.outcome)

\* list(v) for a list or a str of one character
list_of(v) == IF DOMAIN v = {"list"} THEN v.list ELSE <<v>>

\* proxy.<name>(*args) for a RawProxy: an attribute the class has is the
\* one called, and __getattr__ answers for every other name
RawProxy_attribute(name, args, net) ==
    LET a == [name |-> name, args |-> args]
    IN  IF name = "_call"
        THEN IF args = <<>>
             THEN NotCalled("RawProxy.attribute", a, Raise(TypeError))
             ELSE /\ CanCall
                  /\ LET c == _call(args[1].str, Tail(args), net)
                     IN  Called("RawProxy.attribute", a, net, c, c.outcome)
        ELSE IF name = "_batch"
        THEN IF Len(args) # 1 \/ DOMAIN args[1] \notin {{"list"}, {"str"}}
             THEN NotCalled("RawProxy.attribute", a, Raise(TypeError))
             ELSE /\ CanBatch
                  /\ LET c == _batch(list_of(args[1]), net)
                     IN  Called("RawProxy.attribute", a, net, c, c.outcome)
        ELSE RawProxy__getattr__(name, args, net)

\* zcash.core: the decoders and constructors of the domain objects
CBlock_deserialize(b) == [cls |-> "CBlock", serialized |-> b.bytes]
CBlockHeader_deserialize(b) == [cls |-> "CBlockHeader", serialized |-> b.bytes]
CScript(b) == [cls |-> "CScript", data |-> b.bytes]
CTxOut(nValue, scriptPubKey) ==
    [cls |-> "CTxOut", nValue |-> nValue.int, scriptPubKey |-> scriptPubKey]

\* Lines 390-400 of Proxy.getblockheader
getblockheader_decode(r, verbose) ==
    IF verbose
    THEN LET nextblockhash == IF "nextblockhash" \in DOMAIN r
                              THEN lx(r.nextblockhash)
                              ELSE Return(None)
             chainwork == x(r.chainwork)
         IN  IF Raised(nextblockhash) THEN nextblockhash
             ELSE IF Raised(chainwork) THEN chainwork
             ELSE Return([confirmations |-> r.confirmations,
                          height |-> r.height,
                          mediantime |-> r.mediantime,
                          nextblockhash |-> nextblockhash.value,
                          chainwork |-> chainwork.value])
    ELSE LET b == unhexlify(r)
         IN  IF Raised(b) THEN b ELSE Return(CBlockHeader_deserialize(b.value))

\* Proxy.getblockheader(block_hash, verbose)
getblockheader(block_hash, verbose, net) ==
    /\ CanCall
    /\ LET args == [block_hash |-> block_hash, verbose |-> verbose]
           h == b2lx(block_hash)
           c == _call("getblockheader", <<h.value, PyBool(verbose)>>, net)
       IN  IF Raised(h) THEN NotCalled("getblockheader", args, Raise(TypeError))
           ELSE Called("getblockheader", args, net, c,
                    IF Raised(c.outcome)
                    THEN IF c.outcome.exc.cls = "InvalidAddressOrKeyError"
                         THEN Raise(IndexError("getblockheader", c.outcome.exc.error))
                         ELSE c.outcome
                    ELSE getblockheader_decode(c.outcome.value, verbose))

\* getblock with the except clause of getblockhash (InvalidParameterError)
getblock_except_invalid_parameter(block_hash, net) ==
    /\ CanCall
    /\ LET args == [block_hash |-> block_hash]
           h == b2lx(block_hash)
           c == _call("getblock", <<h.value, PyBool(FALSE)>>, net)
           b == unhexlify(c.outcome.value)
       IN  IF Raised(h) THEN NotCalled("getblock", args, Raise(TypeError))
           ELSE Called("getblock", args, net, c,
                    IF Raised(c.outcome)
                    THEN IF c.outcome.exc.cls = "InvalidParameterError"
                         THEN Raise(IndexError("getblock", c.outcome.exc.error))
                         ELSE c.outcome
                    ELSE IF Raised(b) THEN b
                    ELSE Return(CBlock_deserialize(b.value)))

\* Proxy.getblock(block_hash)
getblock(block_hash, net) ==
    /\ CanCall
    /\ LET args == [block_hash |-> block_hash]
           h == b2lx(block_hash)
           c == _call("getblock", <<h.value, PyBool(FALSE)>>, net)
           b == unhexlify(c.outcome.value)
       IN  IF Raised(h) THEN NotCalled("getblock", args, Raise(TypeError))
           ELSE Called("getblock", args, net, c,
                    IF Raised(c.outcome)
                    THEN IF c.outcome.exc.cls = "InvalidAddressOrKeyError"
                         THEN Raise(IndexError("getblock", c.outcome.exc.error))
                         ELSE c.outcome
                    ELSE IF Raised(b) THEN b
                    ELSE Return(CBlock_deserialize(b.value)))

\* Lines 553-558 of Proxy.gettxout
gettxout_decode(r) ==
    LET nValue == int_times_COIN(r.value)
        script == unhexlify(r.scriptPubKey.hex)
        bestblock == lx(r.bestblock)
    IN  IF Raised(nValue) THEN nValue
        ELSE IF Raised(script) THEN script
        ELSE IF Raised(bestblock) THEN bestblock
        ELSE Return([k \in (DOMAIN r \ {"value", "scriptPubKey"}) \cup {"txout"} |->
                        IF k = "txout" THEN CTxOut(nValue.value, CScript(script.value))
                        ELSE IF k = "bestblock" THEN bestblock.value
                        ELSE r[k]])

\* gettxout without the test of lines 550-551: a null result is returned
gettxout_returns_null(outpoint, includemempool, net) ==
    /\ CanCall
    /\ LET args == [outpoint |-> outpoint, includemempool |-> includemempool]
           h == b2lx(PyBytes(outpoint.hash))
           c == _call("gettxout",
                      <<h.value, PyInt(outpoint.n), PyBool(includemempool)>>, net)
       IN  Called("gettxout", args, net, c,
               IF Raised(c.outcome) THEN c.outcome
               ELSE IF c.outcome.value = None THEN c.outcome
               ELSE gettxout_decode(c.outcome.value))

\* Proxy.gettxout(outpoint, includemempool)
gettxout(outpoint, includemempool, net) ==
    /\ CanCall
    /\ LET args == [outpoint |-> outpoint, includemempool |-> includemempool]
           h == b2lx(PyBytes(outpoint.hash))
           c == _call("gettxout",
                      <<h.value, PyInt(outpoint.n), PyBool(includemempool)>>, net)
       IN  Called("gettxout", args, net, c,
               IF Raised(c.outcome) THEN c.outcome
               ELSE IF c.outcome.value = None
               THEN Raise([cls |-> "IndexError", where |-> "gettxout", outpoint |-> outpoint])
               ELSE gettxout_decode(c.outcome.value))

\* zcash.core.CTransaction.deserialize
CTransaction_deserialize(b) == [cls |-> "CTransaction", serialized |-> b.bytes]

\* The keys lines 499-503 delete, in the order they delete them
getrawtransaction_deleted == <<"txid", "version", "locktime", "vin", "vout">>

\* getrawtransaction_decode with the byte order of the block hash kept
getrawtransaction_decode_x(r, verbose) ==
    IF verbose
    THEN LET tx == IF "hex" \in DOMAIN r THEN unhexlify(r.hex)
                   ELSE Raise(KeyError("hex"))
             missing == {i \in 1..5 : getrawtransaction_deleted[i] \notin DOMAIN r}
             first == CHOOSE i \in missing : \A j \in missing : i <= j
             blockhash == IF "blockhash" \in DOMAIN r THEN x(r.blockhash)
                          ELSE Return(None)
         IN  IF Raised(tx) THEN tx
             ELSE IF missing # {} THEN Raise(KeyError(getrawtransaction_deleted[first]))
             ELSE IF Raised(blockhash) THEN blockhash
             ELSE Return([k \in (DOMAIN r \ {"txid", "version", "locktime", "vin", "vout"})
                                    \cup {"tx", "blockhash"} |->
                             IF k = "tx" THEN CTransaction_deserialize(tx.value)
                             ELSE IF k = "blockhash" THEN blockhash.value
                             ELSE r[k]])
    ELSE LET b == unhexlify(r)
         IN  IF Raised(b) THEN b ELSE Return(CTransaction_deserialize(b.value))

\* Lines 496-508 of Proxy.getrawtransaction.  r['tx'] is set from r['hex'],
\* which stays in r (line 498 reads it and deletes nothing); each del raises
\* KeyError when the node's result lacks the key.
getrawtransaction_decode(r, verbose) ==
    IF verbose
    THEN LET tx == IF "hex" \in DOMAIN r THEN unhexlify(r.hex)
                   ELSE Raise(KeyError("hex"))
             missing == {i \in 1..5 : getrawtransaction_deleted[i] \notin DOMAIN r}
             first == CHOOSE i \in missing : \A j \in missing : i <= j
             blockhash == IF "blockhash" \in DOMAIN r THEN lx(r.blockhash)
                          ELSE Return(None)
         IN  IF Raised(tx) THEN tx
             ELSE IF missing # {} THEN Raise(KeyError(getrawtransaction_deleted[first]))
             ELSE IF Raised(blockhash) THEN blockhash
             ELSE Return([k \in (DOMAIN r \ {"txid", "version", "locktime", "vin", "vout"})
                                    \cup {"tx", "blockhash"} |->
                             IF k = "tx" THEN CTransaction_deserialize(tx.value)
                             ELSE IF k = "blockhash" THEN blockhash.value
                             ELSE r[k]])
    ELSE LET b == unhexlify(r)
         IN  IF Raised(b) THEN b ELSE Return(CTransaction_deserialize(b.value))

\* Proxy.getrawtransaction(txid, verbose)
getrawtransaction(txid, verbose, net) ==
    /\ CanCall
    /\ LET args == [txid |-> txid, verbose |-> verbose]
           h == b2lx(txid)
           c == _call("getrawtransaction",
                      <<h.value, PyInt(IF verbose THEN 1 ELSE 0)>>, net)
       IN  IF Raised(h) THEN NotCalled("getrawtransaction", args, Raise(TypeError))
           ELSE Called("getrawtransaction", args, net, c,
                    IF Raised(c.outcome)
                    THEN IF c.outcome.exc.cls = "InvalidAddressOrKeyError"
                         THEN Raise(IndexError("getrawtransaction", c.outcome.exc.error))
                         ELSE c.outcome
                    ELSE getrawtransaction_decode(c.outcome.value, verbose))

\* zcash.core.COutPoint and zcash.wallet.CBitcoinAddress
COutPoint(hash, n) == [cls |-> "COutPoint", hash |-> hash.bytes, n |-> n.int]
CBitcoinAddress(s) == [cls |-> "CBitcoinAddress", str |-> s.str]

\* str(addr) for a CBitcoinAddress
str_of_address(addr) == PyStr(addr.str)

\* The body of the loop of lines 590-596 with the amount left as received
listunspent_entry_amount_kept(unspent) ==
    LET txid == lx(unspent.txid)
        script == unhexlify(unspent.scriptPubKey)
        amount == Return(unspent.amount)
    IN  IF Raised(txid) THEN txid
        ELSE IF Raised(script) THEN script
        ELSE IF Raised(amount) THEN amount
        ELSE Return([k \in DOMAIN unspent \cup {"outpoint"} |->
                        IF k = "outpoint" THEN COutPoint(txid.value, unspent.vout)
                        ELSE IF k = "address" THEN CBitcoinAddress(unspent.address)
                        ELSE IF k = "scriptPubKey" THEN CScript(script.value)
                        ELSE IF k = "amount" THEN amount.value
                        ELSE unspent[k]])

\* The body of the loop of lines 590-596: one entry of the node's result
\* made into the record appended to r2
listunspent_entry(unspent) ==
    LET txid == lx(unspent.txid)
        script == unhexlify(unspent.scriptPubKey)
        amount == int_times_COIN(unspent.amount)
    IN  IF Raised(txid) THEN txid
        ELSE IF Raised(script) THEN script
        ELSE IF Raised(amount) THEN amount
        ELSE Return([k \in DOMAIN unspent \cup {"outpoint"} |->
                        IF k = "outpoint" THEN COutPoint(txid.value, unspent.vout)
                        ELSE IF k = "address" THEN CBitcoinAddress(unspent.address)
                        ELSE IF k = "scriptPubKey" THEN CScript(script.value)
                        ELSE IF k = "amount" THEN amount.value
                        ELSE unspent[k]])

\* Lines 589-597 of Proxy.listunspent: r2 after the loop over the entries of
\* r, or what the first entry that cannot be decoded raises
RECURSIVE listunspent_loop(_, _)
listunspent_loop(r, r2) ==
    IF r = <<>> THEN Return(PyList(r2))
    ELSE LET e == listunspent_entry(Head(r))
         IN  IF Raised(e) THEN e
             ELSE listunspent_loop(Tail(r), Append(r2, e.value))

\* Proxy.listunspent(minconf, maxconf, addrs)
listunspent(minconf, maxconf, addrs, net) ==
    /\ CanCall
    /\ LET args == [minconf |-> minconf, maxconf |-> maxconf, addrs |-> addrs]
           strs == PyList([i \in 1..Len(addrs.list) |-> str_of_address(addrs.list[i])])
           c == _call("listunspent",
                      IF addrs = None THEN <<PyInt(minconf), PyInt(maxconf)>>
                      ELSE <<PyInt(minconf), PyInt(maxconf), strs>>, net)
       IN  Called("listunspent", args, net, c,
               IF Raised(c.outcome) THEN c.outcome
               ELSE listunspent_loop(c.outcome.value.list, <<>>))

\* Proxy.getbalance(account, minconf)
getbalance(account, minconf, net) ==
    /\ CanCall
    /\ LET args == [account |-> account, minconf |-> minconf]
           c == _call("getbalance", <<PyStr(account), PyInt(minconf)>>, net)
       IN  Called("getbalance", args, net, c,
               IF Raised(c.outcome) THEN c.outcome
               ELSE int_times_COIN(c.outcome.value))

\* Proxy.sendtoaddress(addr, amount, comment, commentto, subtractfeefromamount)
sendtoaddress(addr, amount, comment, commentto, subtractfeefromamount, net) ==
    /\ CanCall
    /\ LET args == [addr |-> addr, amount |-> amount]
           c == _call("sendtoaddress",
                      <<str_of_address(addr), float_div_COIN(amount.int),
                        PyStr(comment), PyStr(commentto),
                        PyBool(subtractfeefromamount)>>, net)
           txid == lx(c.outcome.value)
       IN  Called("sendtoaddress", args, net, c,
               IF Raised(c.outcome) THEN c.outcome ELSE txid)

\* Proxy.sendmany(fromaccount, payments, minconf, comment,
\* subtractfeefromamount); payments is a dict from an address to an amount
sendmany(fromaccount, payments, minconf, comment, subtractfeefromamount, net) ==
    /\ CanCall
    /\ LET args == [fromaccount |-> fromaccount, payments |-> payments]
           json_payments == [addr \in DOMAIN payments |->
                                float_div_COIN(payments[addr].int)]
           c == _call("sendmany",
                      <<PyStr(fromaccount), json_payments, PyInt(minconf),
                        PyStr(comment), PyList(subtractfeefromamount)>>, net)
           txid == lx(c.outcome.value)
       IN  Called("sendmany", args, net, c,
               IF Raised(c.outcome) THEN c.outcome ELSE txid)

\* Proxy.z_getbalance, called as proxy.z_getbalance(*args).  The function
\* is defined as z_getbalance(zaddr, minconf=1), without self: the proxy is
\* bound to zaddr, so more than one argument is one too many, and with at
\* most one the body fails on the name self, which it does not have
z_getbalance(args) ==
    /\ stage = "live"
    /\ NotCalled("z_getbalance", [args |-> args],
                 IF Len(args) > 1 THEN Raise(TypeError) ELSE Raise(NameError))

\* Proxy.z_getoperationresult(opid) and Proxy.z_getoperationstatus(opid)
z_getoperationresult(opid, net) ==
    /\ CanCall
    /\ LET c == _call("z_getoperationresult", <<>>, net)
       IN  Called("z_getoperationresult", [opid |-> opid], net, c, c.outcome)

z_getoperationstatus(opid, net) ==
    /\ CanCall
    /\ LET c == _call("z_getoperationstatus", <<>>, net)
       IN  Called("z_getoperationstatus", [opid |-> opid], net, c, c.outcome)

\* The inputs of the operations and the results the node may report
BlockHashes == {PyBytes(<<1, 171>>), PyHex(<<10, 11, 0, 1>>)}
OutPoints == {[cls |-> "COutPoint", hash |-> <<1, 171>>, n |-> 0]}
RawMethods == {"getblockcount", "z_future"}
RawArgs == {<<>>, <<PyInt(1), PyStr("a")>>}
RawResults == {null, Num(7, <<>>), [balance |-> Num(1, <<1>>)]}
BlockResults == {PyHex(<<0, 1, 15, 14>>), PyHex(<<1>>)}
HeaderInfoResults ==
    {[confirmations |-> Num(1, <<>>), height |-> Num(5, <<>>),
      mediantime |-> Num(9, <<>>), chainwork |-> PyHex(<<0, 2>>)],
     [confirmations |-> Num(1, <<>>), height |-> Num(5, <<>>),
      mediantime |-> Num(9, <<>>), chainwork |-> PyHex(<<0, 2>>),
      nextblockhash |-> PyHex(<<10, 11, 0, 1>>)]}
TxOutResults ==
    {null,
     [bestblock |-> PyHex(<<10, 11, 0, 1>>), confirmations |-> Num(2, <<>>),
      value |-> Num(0, <<0, 0, 0, 5>>),
      scriptPubKey |-> [asm |-> PyStr("OP_TRUE"), hex |-> PyHex(<<5, 1>>)],
      coinbase |-> PyBool(FALSE)],
     [bestblock |-> PyHex(<<10, 11, 0, 1>>), confirmations |-> Num(2, <<>>),
      value |-> Num(1, <<>>),
      scriptPubKey |-> [asm |-> PyStr("OP_TRUE"), hex |-> PyHex(<<5, 1>>)],
      coinbase |-> PyBool(TRUE)]}

\* What the node may report for a transaction: its serialization, or with
\* the verbose flag a record; one record has no blockhash (the transaction
\* is unconfirmed), one lacks a key the method deletes
RawTxResults == {PyHex(<<0, 1, 15, 14>>), PyHex(<<1>>)}
VerboseTxResults ==
    {[hex |-> PyHex(<<0, 1, 15, 14>>), txid |-> PyHex(<<10, 11, 0, 1>>),
      version |-> Num(1, <<>>), locktime |-> Num(0, <<>>),
      vin |-> PyList(<<>>), vout |-> PyList(<<>>),
      blockhash |-> PyHex(<<12, 13, 0, 2>>), confirmations |-> Num(3, <<>>)],
     [hex |-> PyHex(<<0, 1, 15, 14>>), txid |-> PyHex(<<10, 11, 0, 1>>),
      version |-> Num(1, <<>>), locktime |-> Num(0, <<>>),
      vin |-> PyList(<<>>), vout |-> PyList(<<>>)],
     [hex |-> PyHex(<<0, 1, 15, 14>>), txid |-> PyHex(<<10, 11, 0, 1>>),
      version |-> Num(1, <<>>), locktime |-> Num(0, <<>>),
      vout |-> PyList(<<>>), blockhash |-> PyHex(<<12, 13, 0, 2>>)]}

\* The amounts a node may report: 0.0005, 1.1, 0.29, the smallest unit
\* 0.00000001, an integer literal, 21.0 and one with nine decimal places
WireAmounts ==
    {Num(0, <<0, 0, 0, 5>>), Num(1, <<1>>), Num(0, <<2, 9>>),
     Num(0, <<0, 0, 0, 0, 0, 0, 0, 1>>), Num(3, <<>>), Num(21, <<0>>),
     Num(0, <<1, 2, 3, 4, 5, 6, 7, 8, 9>>)}

\* An entry of the result of listunspent
UnspentEntry(txid, amount) ==
    [txid |-> PyHex(txid), vout |-> Num(1, <<>>), address |-> PyStr("t1addr"),
     scriptPubKey |-> PyHex(<<5, 1>>), amount |-> amount,
     confirmations |-> Num(6, <<>>)]

\* The results of listunspent: no entry, one entry of each amount, two
\* entries, and an entry whose txid is not hex of even length
UnspentResults ==
    {PyList(<<>>)}
    \cup {PyList(<<UnspentEntry(<<10, 11, 0, 1>>, a)>>) : a \in WireAmounts}
    \cup {PyList(<<UnspentEntry(<<10, 11, 0, 1>>, Num(1, <<1>>)),
                   UnspentEntry(<<12, 13, 0, 2>>, Num(0, <<0, 0, 0, 5>>))>>),
          PyList(<<UnspentEntry(<<12, 13, 0, 2>>, Num(0, <<0, 0, 0, 5>>)),
                   UnspentEntry(<<10, 11, 0, 1>>, Num(1, <<1>>))>>),
          PyList(<<UnspentEntry(<<10, 11, 0, 1>>, Num(1, <<1>>)),
                   UnspentEntry(<<1>>, Num(3, <<>>))>>)}

\* The addrs argument of listunspent
AddrLists == {None, PyList(<<[cls |-> "CBitcoinAddress", str |-> "t1addr"]>>)}

\* The amounts the send operations are given: the smallest units the read
\* operations make of the amounts a node reports
SendAmounts == {int_times_COIN(json_loads(a)).value : a \in WireAmounts}

\* What may come of a send: the transaction id or an error of the node
SendExchanges ==
    {[getresponse |-> [body |-> [error |-> null, result |-> PyHex(<<10, 11, 0, 1>>),
                                 id |-> Num(1, <<>>)]]],
     [getresponse |-> [body |-> [error |-> WireError(-6, "Insufficient funds"),
                                 result |-> null, id |-> Num(1, <<>>)]]]}

\* The names and arguments of the calls by name: methods of the node, names
\* Python keeps for itself and names of the proxy's own methods
AttributeNames == {"z_future", "__members__", "_call", "_batch"}
ArgTuples == {<<>>, <<PyStr("a")>>, <<PyStr("a"), PyInt(2)>>}
NamedExchanges ==
    TransportFailures
    \cup {[getresponse |-> [body |-> b]] :
             b \in {[error |-> null, result |-> [balance |-> Num(1, <<1>>)],
                      id |-> Num(1, <<>>)],
                     [error |-> WireError(-5, "x"), result |-> null,
                      id |-> Num(1, <<>>)]}}

\* The requests of a batch and the responses to one
BatchItem(method, id) ==
    [version |-> PyStr("1.1"), method |-> PyStr(method),
     params |-> PyList(<<>>), id |-> PyInt(id)]
BatchLists ==
    {<<>>, <<BatchItem("a", 1), BatchItem("b", 2)>>,
     <<BatchItem("b", 2), BatchItem("a", 1)>>}
BatchOk(id) == [error |-> null, result |-> Num(7, <<>>), id |-> Num(id, <<>>)]
BatchFailed(id) ==
    [error |-> WireError(-5, "x"), result |-> null, id |-> Num(id, <<>>)]
BatchBodies ==
    {PyList(<<>>), PyList(<<BatchOk(1), BatchFailed(2)>>),
     PyList(<<BatchFailed(2), BatchOk(1)>>),
     [error |-> WireError(-32600, "x"), result |-> null, id |-> null]}
BatchExchanges ==
    TransportFailures \cup {[getresponse |-> [body |-> b]] : b \in BatchBodies}

\* The arguments z_getbalance is called with, the operation ids asked about
\* and the operations a node reports
BalanceArgs ==
    {<<>>, <<PyStr("zaddr")>>, <<PyStr("zaddr"), PyInt(1)>>,
     <<PyStr("zaddr"), PyInt(5)>>}
Opids == {PyList(<<PyStr("opid-1")>>), PyList(<<PyStr("opid-1"), PyStr("opid-2")>>)}
OperationStatus(id) == [id |-> PyStr(id), status |-> PyStr("success")]
OperationResults ==
    {PyList(<<>>), PyList(<<OperationStatus("opid-1")>>),
     PyList(<<OperationStatus("opid-1"), OperationStatus("opid-3")>>)}

InitParams ==
    /\ params = MainParams
    /\ coreparams = CoreMainParams
    /\ bitcoin_params = bitcoin_MainParams
    /\ bitcoin_coreparams = CoreMainParams
    /\ lastOk = [zcash |-> "", bitcoin |-> ""]

NoOp == [op |-> "", outcome |-> Return(None)]

Init ==
    /\ InitParams
    /\ self = [unborn |-> TRUE]
    /\ stage = "unborn"
    /\ wire = <<>>
    /\ posted = None
    /\ ret = NoOp

construct ==
    \E service_url \in ServiceUrls, service_port \in ServicePorts,
       zcash_conf_file \in ConfFileArgs, platform_system \in Platforms,
       fd \in ConfFiles :
        BaseProxy__init__(service_url, service_port, zcash_conf_file,
                          platform_system, fd)

zcash_select == \E name \in Names : SelectParams(name)
bitcoin_select == \E name \in Names : bitcoin_SelectParams(name)

do_call ==
    \E service_name \in RawMethods, args \in RawArgs, net \in Exchanges(RawResults, RawErrors) :
        call(service_name, args, net)

do_getblockheader ==
    \E block_hash \in BlockHashes, verbose \in BOOLEAN :
        \E net \in Exchanges(IF verbose THEN HeaderInfoResults ELSE BlockResults, TypedErrors) :
            getblockheader(block_hash, verbose, net)

do_getblock ==
    \E block_hash \in BlockHashes, net \in Exchanges(BlockResults, TypedErrors) :
        getblock(block_hash, net)

do_gettxout ==
    \E outpoint \in OutPoints, includemempool \in {TRUE}, net \in Exchanges(TxOutResults, TypedErrors) :
        gettxout(outpoint, includemempool, net)

Next ==
    \/ zcash_select
    \/ construct
    \/ BaseProxy__del__
    \/ do_call
    \/ do_getblockheader
    \/ do_getblock
    \/ do_gettxout

Spec == Init /\ [][Next]_vars

(***************************************************************************)
(* The wallet and transaction operations of a proxy given its URL          *)
(***************************************************************************)
connect ==
    \E service_url \in ExplicitUrls :
        BaseProxy__init__(service_url, None, None, "Linux", [readable |-> FALSE])

do_getrawtransaction ==
    \E txid \in BlockHashes, verbose \in BOOLEAN :
        \E net \in Exchanges(IF verbose THEN VerboseTxResults ELSE RawTxResults,
                             TypedErrors) :
            getrawtransaction(txid, verbose, net)

do_listunspent ==
    \E addrs \in AddrLists, net \in Exchanges(UnspentResults, TypedErrors) :
        listunspent(0, 9999999, addrs, net)

do_z_getbalance == \E args \in BalanceArgs : z_getbalance(args)

do_z_getoperationresult ==
    \E opid \in Opids, net \in Exchanges(OperationResults, TypedErrors) :
        z_getoperationresult(opid, net)

do_z_getoperationstatus ==
    \E opid \in Opids, net \in Exchanges(OperationResults, TypedErrors) :
        z_getoperationstatus(opid, net)

NextWallet ==
    \/ connect
    \/ BaseProxy__del__
    \/ do_getrawtransaction
    \/ do_listunspent
    \/ do_z_getbalance
    \/ do_z_getoperationresult
    \/ do_z_getoperationstatus

SpecWallet == Init /\ [][NextWallet]_vars

(***************************************************************************)
(* The operations that read and send amounts                               *)
(***************************************************************************)
do_getbalance ==
    \E net \in Exchanges(WireAmounts, {}) : getbalance("*", 1, net)

do_sendtoaddress ==
    \E amount \in SendAmounts, net \in SendExchanges :
        sendtoaddress([cls |-> "CBitcoinAddress", str |-> "t1addr"], amount,
                      "", "", FALSE, net)

do_sendmany ==
    \E amount \in {PyInt(110000000), PyInt(1)}, net \in SendExchanges :
        sendmany("", [t1addr |-> amount], 1, "", <<>>, net)

NextCurrency ==
    \/ connect
    \/ BaseProxy__del__
    \/ do_getbalance
    \/ do_sendtoaddress
    \/ do_sendmany

SpecCurrency == Init /\ [][NextCurrency]_vars

(***************************************************************************)
(* The calls by name and the batches                                       *)
(***************************************************************************)
do_attribute ==
    \E name \in AttributeNames, args \in ArgTuples :
        \E net \in (IF name = "_batch" THEN BatchExchanges
                    ELSE NamedExchanges) :
            /\ (name = "_call" /\ args # <<>>) => DOMAIN args[1] = {"str"}
            /\ RawProxy_attribute(name, args, net)

do_call_by_name ==
    \E service_name \in {"z_future", "__members__"}, args \in ArgTuples,
       net \in NamedExchanges :
        call(service_name, args, net)

do_batch ==
    \E rpc_call_list \in BatchLists, net \in BatchExchanges :
        batch(rpc_call_list, net)

NextRaw ==
    \/ connect
    \/ BaseProxy__del__
    \/ do_attribute
    \/ do_call_by_name
    \/ do_batch

SpecRaw == Init /\ [][NextRaw]_vars

\* The two registries alone
NextParams ==
    \/ zcash_select
    \/ bitcoin_select

SpecParams == Init /\ [][NextParams]_vars

(***************************************************************************)
(* The chain-parameter registry, checked under SpecParams                  *)
(***************************************************************************)
ActiveOf(module) == IF module = "zcash" THEN params ELSE bitcoin_params

\* C1: SelectParams(name) with a name other than 'mainnet', 'testnet' and
\* 'regtest' raises the unknown-chain ValueError and leaves the module's
\* params exactly as it was before the call.
C1_UnknownNameLeavesParams ==
    (ret.op = "SelectParams" /\ ret.name \notin {"mainnet", "testnet", "regtest"})
        => /\ ret.outcome = Raise(ValueError)
           /\ ActiveOf(ret.module) = ret.before

C1_Witness ==
    /\ ret.op = "SelectParams"
    /\ ret.module = "zcash"
    /\ ret.name = "main"
    /\ ret.before = RegTestParams

\* The fixed table of C2: default port, RPC port and address prefixes by name
TablePorts(name) ==
    IF name = "mainnet" THEN <<8233, 8232>>
    ELSE IF name = "testnet" THEN <<18233, 18232>>
    ELSE <<18444, 18232>>

TablePrefixes(module, name) ==
    IF name = "mainnet"
    THEN [PUBKEY_ADDR |-> PyBytes(<<28, 184>>), SCRIPT_ADDR |-> PyBytes(<<28, 189>>),
          SECRET_KEY |-> PyInt(128)]
    ELSE IF name = "regtest" /\ module = "bitcoin"
    THEN [PUBKEY_ADDR |-> PyInt(7461), SCRIPT_ADDR |-> PyInt(7354),
          SECRET_KEY |-> PyInt(239)]
    ELSE [PUBKEY_ADDR |-> PyBytes(<<29, 37>>), SCRIPT_ADDR |-> PyBytes(<<28, 186>>),
          SECRET_KEY |-> PyInt(239)]

\* C2: for each of the three chain names SelectParams(name) returns, and the
\* params read right after it carry the DEFAULT_PORT, RPC_PORT and
\* BASE58_PREFIXES of the table entry of that name.
C2_SelectThenCurrent ==
    (ret.op = "SelectParams" /\ ret.name \in {"mainnet", "testnet", "regtest"})
        => /\ ret.outcome = Return(None)
           /\ ActiveOf(ret.module).DEFAULT_PORT = TablePorts(ret.name)[1]
           /\ ActiveOf(ret.module).RPC_PORT = TablePorts(ret.name)[2]
           /\ ActiveOf(ret.module).BASE58_PREFIXES = TablePrefixes(ret.module, ret.name)

C2_Witness ==
    /\ ret.op = "SelectParams"
    /\ ret.module = "bitcoin"
    /\ ret.name = "testnet"
    /\ ret.before = bitcoin_RegTestParams
    /\ bitcoin_params.DEFAULT_PORT = 18233

ProfileNamed(module, name) ==
    IF name = "testnet" THEN "TestNetParams"
    ELSE IF name = "regtest" THEN "RegTestParams"
    ELSE "MainParams"

\* C3: the active profile is Main at the start, and after any sequence of
\* SelectParams calls exactly one of the three profiles is active: that of
\* the most recent call that returned, or Main if none returned.
C3_ActiveIsLastSelected ==
    \A module \in {"zcash", "bitcoin"} :
        /\ lastOk[module] \in {"", "mainnet", "testnet", "regtest"}
        /\ ActiveOf(module).cls = ProfileNamed(module, lastOk[module])
        /\ Cardinality({name \in {"mainnet", "testnet", "regtest"} :
               /\ ActiveOf(module).DEFAULT_PORT = TablePorts(name)[1]
               /\ ActiveOf(module).BASE58_PREFIXES = TablePrefixes(module, name)}) = 1

C3_Witness ==
    /\ lastOk.zcash = "testnet"
    /\ ret.op = "SelectParams"
    /\ ret.module = "zcash"
    /\ Raised(ret.outcome)
    /\ params = TestNetParams

(***************************************************************************)
(* The proxy, checked under Spec                                           *)
(***************************************************************************)
\* The response object of the last operation, when it received one
GotResponse == "net" \in DOMAIN ret /\ "getresponse" \in DOMAIN ret.net
                   /\ ret.net.getresponse # None
Body == ret.net.getresponse.body
NodeError == GotResponse /\ "error" \in DOMAIN Body /\ Body.error # null
ErrorAsDict(e) == [code |-> PyInt(e.code.whole), message |-> e.message]

\* The taxonomy of the specification: each of the seven codes has a kind of
\* its own, every other code the generic kind
KindOfCode(code) ==
    CASE code = -2 -> "ForbiddenBySafeModeError"
      [] code = -5 -> "InvalidAddressOrKeyError"
      [] code = -8 -> "InvalidParameterError"
      [] code = -25 -> "VerifyError"
      [] code = -26 -> "VerifyRejectedError"
      [] code = -27 -> "VerifyAlreadyInChainError"
      [] code = -28 -> "InWarmupError"
      [] OTHER -> "JSONRPCError"

\* C4: when the response to a call carries a non-null error {code, message},
\* the call raises the kind the table maps the code to, the generic kind for
\* a code outside the table, and the error raised carries the code and the
\* message of the response unchanged.
C4_ErrorKindByCode ==
    (ret.op = "call" /\ NodeError)
        => /\ Raised(ret.outcome)
           /\ ret.outcome.exc.cls = KindOfCode(Body.error.code.whole)
           /\ ret.outcome.exc.error = ErrorAsDict(Body.error)

C4_Witness ==
    /\ ret.op = "call"
    /\ NodeError
    /\ Body.error.code.whole = -27
    /\ ret.outcome.exc.cls = "VerifyAlreadyInChainError"

MissingResultError ==
    [cls |-> "JSONRPCError",
     error |-> [code |-> PyInt(-343), message |-> PyStr("missing JSON-RPC result")]]

\* C5: given a response with neither a result nor an error (the error field
\* null or absent, the result field absent), call raises the missing-result
\* error, code -343 and message 'missing JSON-RPC result', and returns nothing.
C5_MissingResult ==
    (/\ ret.op = "call"
     /\ GotResponse
     /\ "result" \notin DOMAIN Body
     /\ ("error" \notin DOMAIN Body \/ Body.error = null))
        => ret.outcome = Raise(MissingResultError)

\* The kinds of the errors call raises for a missing result and for the
\* errors a node reports
MissingResultKind == _call_result([error |-> None, id |-> PyInt(1)]).exc.cls
NodeErrorKinds == {JSONRPCError(ErrorAsDict(e)).cls : e \in RawErrors}
NoHttpResponse == "net" \in DOMAIN ret /\ "getresponse" \in DOMAIN ret.net
                      /\ ret.net.getresponse = None

LineSets(line, key) ==
    \E i \in 1..Len(line) :
        /\ line[i] = "="
        /\ \A j \in 1..i : line[j] # "#"
        /\ \A j \in 1..(i - 1) : line[j] # "="
        /\ \E a \in 1..(i - 1) :
              /\ line[a] = key
              /\ \A j \in 1..(i - 1) : j # a => line[j] = " "
FileSets(fd, key) == fd.readable /\ \E n \in 1..Len(fd.lines) : LineSets(fd.lines[n], key)

\* C7: a session constructed with no service URL and no service port, from
\* a configuration file that sets no rpcport, connects to the RPC port of
\* the chain profile active at construction: 8232 for mainnet, 18232 for
\* testnet and regtest.
C7_PortOfActiveProfile ==
    (/\ ret.op = "__init__"
     /\ stage = "live"
     /\ ret.args.service_url = None
     /\ ret.args.service_port = None
     /\ ~FileSets(ret.args.fd, "rpcport"))
        => /\ self.conn.port = ret.args.active.RPC_PORT
           /\ self.conn.port = IF ret.args.active.cls = "MainParams" THEN 8232 ELSE 18232

\* C8: construction fails, with no connection created and no request sent,
\* whenever the configuration file it reads has no rpcpassword key or the
\* scheme of the endpoint URL is not 'http'; a session whose construction
\* failed never has a connection and never sends a request.
C8_ConstructionFails ==
    /\ (/\ ret.op = "__init__"
        /\ \/ ret.args.service_url = None /\ ret.args.fd.readable
                 /\ ~FileSets(ret.args.fd, "rpcpassword")
           \/ ret.args.service_url # None
                 /\ ret.args.service_url.text[1] # "http")
           => /\ Raised(ret.outcome)
              /\ stage = "init_failed"
    /\ stage = "init_failed" => self.conn = None /\ wire = <<>> /\ posted = None
    /\ (ret.op = "__init__" /\ Raised(ret.outcome)) => stage = "init_failed"

C8_Witness ==
    /\ ret.op = "__init__"
    /\ ret.args.service_url = None
    /\ ret.args.fd.readable
    /\ Len(ret.args.fd.lines) = 2
    /\ ~FileSets(ret.args.fd, "rpcpassword")
    /\ ret.outcome.exc.cls = "ValueError"

\* C9: gettxout raises IndexError whenever the node's result is null, and
\* never returns a null value: every value it returns is a record holding a
\* decoded txout.
C9_TxOutNeverNull ==
    ret.op = "gettxout"
        => /\ (/\ GotResponse
               /\ DOMAIN Body = {"error", "result", "id"}
               /\ Body.error = null
               /\ Body.result = null)
                  => (Raised(ret.outcome) /\ ret.outcome.exc.cls = "IndexError")
           /\ Returned(ret.outcome)
                  => /\ ret.outcome.value # None
                     /\ "txout" \in DOMAIN ret.outcome.value
                     /\ ret.outcome.value.txout.cls = "CTxOut"
                     /\ ret.outcome.value.txout.nValue \in {50000, 100000000}

C9_Witness ==
    /\ ret.op = "gettxout"
    /\ GotResponse
    /\ "result" \in DOMAIN Body
    /\ Body.result = null
    /\ "error" \in DOMAIN Body
    /\ Body.error = null
    /\ ret.outcome.exc.cls = "IndexError"

\* C10: getblock and getblockheader raise IndexError exactly when the node
\* answers with error code -5; a node error of any other code reaches the
\* caller as the error of the taxonomy, untranslated.
C10_NotFoundIffCodeMinus5 ==
    ret.op \in {"getblock", "getblockheader"}
        => /\ (Raised(ret.outcome) /\ ret.outcome.exc.cls = "IndexError")
                  <=> (NodeError /\ Body.error.code.whole = -5)
           /\ (NodeError /\ Body.error.code.whole # -5)
                  => ret.outcome =
                        Raise([cls |-> KindOfCode(Body.error.code.whole),
                               error |-> ErrorAsDict(Body.error)])

C10_Witness ==
    /\ ret.op = "getblock"
    /\ NodeError
    /\ Body.error.code.whole = -5
    /\ ret.outcome.exc.cls = "IndexError"
    /\ ret.outcome.exc.error.message = PyStr("Block not found")

(***************************************************************************)
(* The wallet and transaction operations, checked under SpecWallet         *)
(***************************************************************************)
\* The bytes a string of hex digits stands for, most significant digit first
BytesOfHex(h) == [i \in 1..(Len(h) \div 2) |-> 16 * h[2 * i - 1] + h[2 * i]]

\* C11: getrawtransaction(txid, verbose=True) returns a record with none of
\* the keys txid, version, locktime, vin, vout, with the decoded transaction
\* under 'tx', and with 'blockhash' the node's block hash in byte-reversed
\* (canonical) order when the node supplied one and None otherwise; with
\* verbose=False it returns the decoded transaction alone.
C11_VerboseStripsComputedKeys ==
    (ret.op = "getrawtransaction" /\ Returned(ret.outcome))
        => LET v == ret.outcome.value
               r == Body.result
           IN  IF ret.args.verbose
               THEN /\ DOMAIN v \cap {"txid", "version", "locktime", "vin", "vout"} = {}
                    /\ "tx" \in DOMAIN v
                    /\ v.tx = [cls |-> "CTransaction",
                               serialized |-> BytesOfHex(r.hex.hexstr)]
                    /\ "blockhash" \in DOMAIN v
                    /\ v.blockhash =
                          IF "blockhash" \in DOMAIN r
                          THEN PyBytes(Reverse(BytesOfHex(r.blockhash.hexstr)))
                          ELSE None
               ELSE v = [cls |-> "CTransaction", serialized |-> BytesOfHex(r.hexstr)]

C11_Witness ==
    /\ ret.op = "getrawtransaction"
    /\ ret.args.verbose
    /\ Returned(ret.outcome)
    /\ "blockhash" \in DOMAIN Body.result
    /\ ret.outcome.value.blockhash = PyBytes(<<2, 205>>)
    /\ ret.outcome.value.tx.serialized = <<1, 254>>

\* The number of smallest units in a wire amount of at most 8 decimal
\* places: its digits, shifted to 8 places
ExactUnits(n) == n.whole * COIN + DigitsValue(n.frac) * Pow10(8 - Len(n.frac))

\* C12: listunspent returns exactly one record per entry of the node's
\* result, in the node's order, and the amount of each record is the integer
\* equal to the entry's decimal amount times COIN exactly (0.0005 gives
\* 50000), for every amount of at most 8 decimal places.
C12_UnspentAmountsExact ==
    (ret.op = "listunspent" /\ Returned(ret.outcome))
        => LET r == Body.result.list
               r2 == ret.outcome.value.list
           IN  /\ Len(r2) = Len(r)
               /\ \A i \in 1..Len(r) :
                     /\ r2[i].outpoint.hash = Reverse(BytesOfHex(r[i].txid.hexstr))
                     /\ Len(r[i].amount.frac) <= 8
                           => r2[i].amount = PyInt(ExactUnits(r[i].amount))
                     /\ r[i].amount = Num(0, <<0, 0, 0, 5>>)
                           => r2[i].amount = PyInt(50000)

C12_Witness ==
    /\ ret.op = "listunspent"
    /\ Returned(ret.outcome)
    /\ Len(ret.outcome.value.list) = 2
    /\ ret.outcome.value.list[1].amount = PyInt(50000)
    /\ ret.outcome.value.list[2].amount = PyInt(110000000)
    /\ ret.outcome.value.list[2].outpoint.hash = <<1, 171>>

(***************************************************************************)
(* The amounts read and sent, checked under SpecCurrency                   *)
(***************************************************************************)
\* The request the last exchange put on the wire is the one of the operation
\* that returned last
SentLast == "net" \in DOMAIN ret /\ "request_raises" \notin DOMAIN ret.net

\* The amount literal a send operation posted for the units it was given
\* is a decimal of at most 8 places that is worth exactly those units, that
\* the read conversion turns back into those units, and that is worth the
\* same as every reported amount those units were read from
RoundTrips(literal, units) ==
    /\ Len(literal.frac) <= 8
    /\ ExactUnits(literal) = units.int
    /\ int_times_COIN(json_loads(literal)) = Return(units)
    /\ \A a \in WireAmounts :
          (Len(a.frac) <= 8 /\ int_times_COIN(json_loads(a)) = Return(units))
             => ExactUnits(a) = ExactUnits(literal)

NamedCall == ret.op \in {"RawProxy.attribute", "call"}
CalledName == IF ret.op = "call" THEN ret.args.service_name ELSE ret.args.name

\* The request of the last operation carries the name called and its
\* arguments in their order under the id the proxy has reached, and what
\* the node answered as result is returned as parsed
Forwarded ==
    /\ "method" \in DOMAIN posted
    /\ posted.method = PyStr(CalledName)
    /\ Len(posted.params.list) = Len(ret.args.args)
    /\ \A i \in 1..Len(ret.args.args) :
          posted.params.list[i] = json_dumps(ret.args.args[i])
    /\ posted.id = Num(self.id_count, <<>>)
    /\ wire[Len(wire)] = self.id_count
    /\ (GotResponse /\ ~NodeError)
          => ret.outcome = Return(json_loads(Body.result))

\* C14 as claimed: for every name that is not a double-underscore name,
\* RawProxy.<name>(*args) and Proxy.call(name, *args) each send one request
\* carrying exactly that method name and those arguments in order, and
\* return the node's result undecoded.
C14_AnyNonDunderName ==
    (NamedCall /\ SentLast /\ ~IsDunder(CalledName)) => Forwarded

\* C14 as amended: Proxy.call(name, *args) for every name, and
\* RawProxy.<name>(*args) for every name that is neither a double-underscore
\* name nor the name of a method the proxy inherits (_call, _batch), each
\* send one request carrying exactly that method name and those arguments
\* in order, and return the node's result undecoded.
C14_UnboundNameForwarded ==
    (NamedCall /\ SentLast
        /\ (ret.op = "call"
               \/ (~IsDunder(CalledName) /\ CalledName \notin InheritedMethods)))
        => Forwarded

C14_Witness ==
    /\ ret.op = "RawProxy.attribute"
    /\ ret.args = [name |-> "z_future", args |-> <<PyStr("a"), PyInt(2)>>]
    /\ SentLast
    /\ posted.method = PyStr("z_future")
    /\ posted.params = PyList(<<PyStr("a"), Num(2, <<>>)>>)
    /\ ret.outcome = Return([balance |-> Decimal(11, 1)])

\* C20: a batch sends the whole request list, in its order, as one payload
\* in one HTTP request and returns the decoded response as it is: the items
\* of the response in their order, none dropped, and no error raised for an
\* item that carries a non-null error.
C20_BatchAsIs ==
    (ret.op = "_batch" /\ SentLast)
        => LET l == ret.args.rpc_call_list
           IN  /\ DOMAIN posted = {"list"}
               /\ Len(posted.list) = Len(l)
               /\ \A i \in 1..Len(l) :
                     /\ posted.list[i].method = l[i].method
                     /\ posted.list[i].id = Num(l[i].id.int, <<>>)
               /\ wire[Len(wire)] = 0
               /\ GotResponse
                     => /\ ret.outcome = Return(json_loads(Body))
                        /\ DOMAIN Body = {"list"}
                              => LET r == ret.outcome.value.list
                                 IN  /\ Len(r) = Len(Body.list)
                                     /\ \A i \in 1..Len(r) :
                                           /\ r[i].id = PyInt(Body.list[i].id.whole)
                                           /\ (r[i].error = None)
                                                 <=> (Body.list[i].error = null)

C20_Witness ==
    /\ ret.op = "_batch"
    /\ SentLast
    /\ ret.args.rpc_call_list = <<BatchItem("b", 2), BatchItem("a", 1)>>
    /\ posted.list[1].method = PyStr("b")
    /\ GotResponse
    /\ Body = PyList(<<BatchFailed(2), BatchOk(1)>>)
    /\ Returned(ret.outcome)
    /\ ret.outcome.value.list[1].error.code = PyInt(-5)
    /\ ret.outcome.value.list[2].result = PyInt(7)

\* C15 as claimed: proxy.z_getbalance(zaddr, minconf) sends one z_getbalance
\* request for the address zaddr with the given minconf and returns the
\* balance the node reports for it.
C15_BalanceOfAddress ==
    (ret.op = "z_getbalance" /\ Len(ret.args.args) = 2)
        => /\ SentLast
           /\ posted.method = PyStr("z_getbalance")
           /\ posted.params = PyList(<<ret.args.args[1],
                                       Num(ret.args.args[2].int, <<>>)>>)
           /\ Returned(ret.outcome)

\* C16 as claimed: the request z_getoperationstatus(opid) and
\* z_getoperationresult(opid) send carries opid as its parameter, so that
\* the node examines the operations listed in opid only.
C16_OpidCarried ==
    (ret.op \in {"z_getoperationstatus", "z_getoperationresult"} /\ SentLast)
        => /\ posted.method = PyStr(ret.op)
           /\ posted.params = PyList(<<json_dumps(ret.args.opid)>>)

(***************************************************************************)
(* The life of a session, checked under Spec                               *)
(***************************************************************************)
\* The ids that went on the wire are strictly increasing, so none went
\* twice, and each is one the counter has reached
IdsIncrease ==
    /\ \A i, j \in 1..Len(wire) : i < j => wire[i] < wire[j]
    /\ stage = "live" => \A i \in 1..Len(wire) : wire[i] \in 1..self.id_count
    /\ (stage = "live" /\ ret.op = "__init__") => self.id_count = 0

\* An invocation that goes through _call takes the id after the one the
\* invocation before it took, whatever came of either, and the request it
\* sends carries that id
NextIdTaken ==
    "net" \in DOMAIN ret'
        => /\ self'.id_count = self.id_count + 1
           /\ \/ wire' = wire /\ "request_raises" \in DOMAIN ret'.net
              \/ /\ wire' = Append(wire, self'.id_count)
                 /\ posted'.id = Num(self'.id_count, <<>>)

\* C17: within one session the requests of successive invocations carry the
\* ids 1, 2, 3, ...: each invocation takes exactly one more than the one
\* before it, starting at 1, whatever the outcome of the earlier calls
\* (result, RPC error, protocol error, transport error), and no id is sent
\* twice.
C17_SequentialIds == []IdsIncrease /\ [][NextIdTaken]_vars

C17_Witness ==
    /\ wire = <<1, 2>>
    /\ self.id_count = 2
    /\ posted.id = Num(2, <<>>)
    /\ Raised(ret.outcome)

\* C18: once a session is disposed of, a connection it opened is closed,
\* on every path that led there; a session whose construction failed
\* (missing password, unsupported scheme, unreadable configuration) has no
\* connection, and disposing of it completes without closing one.
C18_ConnectionReleased ==
    /\ stage = "init_failed" => self.conn = None
    /\ (ret.op = "__init__" /\ Raised(ret.outcome)) => stage # "live"
    /\ stage = "deleted" => (self.conn # None => self.conn.sock = "closed")
    /\ ret.op = "__del__" => (stage = "deleted" /\ ret.outcome = Return(None))

C18_Witness ==
    /\ stage = "deleted"
    /\ self.conn # None
    /\ self.conn.sock = "closed"
    /\ wire = <<1, 2>>

\* The last operation failed: the connection raised, gave no response, or
\* the response reports an error or lacks the error or the result member
CallFailed ==
    /\ "net" \in DOMAIN ret
    /\ \/ "request_raises" \in DOMAIN ret.net
       \/ "getresponse_raises" \in DOMAIN ret.net
       \/ ret.net.getresponse = None
       \/ "error" \notin DOMAIN Body
       \/ Body.error # null
       \/ "result" \notin DOMAIN Body

\* C19: an invocation of a typed operation or of a raw call sends at most
\* one request: no step puts more than one request on the wire, and after a
\* transport, protocol or RPC error the invocation sends nothing more and
\* ends by raising.
C19_NoRetry ==
    /\ [](CallFailed => Raised(ret.outcome))
    /\ [][/\ Len(wire') <= Len(wire) + 1
          /\ "net" \notin DOMAIN ret' => wire' = wire]_vars

C19_Witness ==
    /\ ret.op = "getblock"
    /\ CallFailed
    /\ "getresponse_raises" \in DOMAIN ret.net
    /\ Raised(ret.outcome)
    /\ wire = <<1, 2>>
====
